---- MODULE Spec2Model ----
(***************************************************************************)
(* Helixque backend: the session coordinator of src/backend/src/index.ts   *)
(* and the ScreenShareManager of src/backend/src/types/screenShare.ts.     *)
(*                                                                         *)
(* One action per socket.io handler.  Node runs each handler to completion *)
(* (no handler awaits), so a handler is one atomic step.  Messages emitted *)
(* by the handler that ran last are kept in `out`, the event it handled in *)
(* `last`.  The client side is the React hook of                           *)
(* src/frontend/hooks/useScreenShare.ts, kept in `hook`.                   *)
(***************************************************************************)
EXTENDS Integers, Sequences, FiniteSets, TLC

VARIABLES
    status,              \* per connection id: "fresh", "connected", "gone"
    heartbeats,          \* index.ts:35   ids holding a setInterval handle
    users,               \* UserManager registry: id -> [roomId]
    rooms,               \* socket.io adapter rooms: room name -> member ids
    activeScreenShares,  \* screenShare.ts:57  id -> ScreenShareState
    screenShareHistory,  \* screenShare.ts:58  id -> sequence of events
    now,                 \* Date.now(), one tick per manager call
    last,                \* the inbound event (or manager call) handled last
    out,                 \* messages emitted by that handler, in emit order
    appended,            \* every event ever passed to addToHistory, per id
    script,              \* the call pattern replayed by SpecHist
    hook                 \* useScreenShare.ts: one mounted instance of the hook

vars == <<status, heartbeats, users, rooms, activeScreenShares,
          screenShareHistory, now, last, out, appended, script, hook>>

-----------------------------------------------------------------------------
(* Bounds *)

MaxConns == 2            \* Spec: connection ids 1..MaxConns, issued in order
MaxTime == 2             \* Spec: manager calls per behaviour
WideConns == 3           \* SpecWide: connection ids 1..WideConns
WideTime == 1            \* SpecWide: manager calls per behaviour
MaxCalls == 3            \* manager calls per behaviour of SpecManager
MaxAppends == 53         \* manager calls per behaviour of SpecHist
ScriptLen == 3           \* period of the call pattern of SpecHist
QualityCalls == 1        \* manager calls per behaviour of SpecQuality
EdgeTime == 2            \* SpecEdge: manager calls per behaviour
OtherCalls == 1          \* SpecHist: calls on the second identity
MaxHookSends == 3        \* SpecHook: events the hook emits per behaviour

Conns == 1..(IF MaxConns > WideConns THEN MaxConns ELSE WideConns)
RoomNames == {"r1", "r2"}
PayloadRooms == RoomNames \cup {""}   \* "" stands for an empty/missing roomId

(* Program constants *)
HistoryCap == 50
DefaultWidth == 1920
DefaultHeight == 1080

-----------------------------------------------------------------------------
(* Constraints: ideal width, ideal height, displaySurface.  Absent marks a *)
(* field that is undefined in the payload; undefined constraints and {}    *)
(* are the record with every field absent.                                 *)

Absent == 0 - 1
NoSurface == ""
NoConstraints == [width |-> Absent, height |-> Absent, displaySurface |-> NoSurface]
Dims == {Absent, 0, 640, 1919, 1920, 2559, 2560, 3839, 3840, 4096}
Heights == {Absent, 0, 480, 1079, 1080, 1439, 1440, 2159, 2160, 2400}
QualityInputs == [width : Dims, height : Heights, displaySurface : {NoSurface}]
ConstraintChoices ==
    { NoConstraints,
      [width |-> 3840, height |-> 2160, displaySurface |-> "monitor"] }

\* `v || dflt` on a number-or-undefined: undefined and 0 are falsy
OrDefault(v, dflt) == IF v = Absent \/ v = 0 THEN dflt ELSE v

\* determineQuality with strict comparisons
determineQualityStrict(constraints) ==
    LET width == OrDefault(constraints.width, DefaultWidth)
        height == OrDefault(constraints.height, DefaultHeight)
    IN  IF width > 3840 /\ height > 2160 THEN "ultra"
        ELSE IF width > 2560 /\ height > 1440 THEN "high"
        ELSE IF width > 1920 /\ height > 1080 THEN "medium"
        ELSE "low"

\* determineQuality without the defaults: a missing dimension counts as 0
determineQualityZero(constraints) ==
    LET width == IF constraints.width = Absent THEN 0 ELSE constraints.width
        height == IF constraints.height = Absent THEN 0 ELSE constraints.height
    IN  IF width >= 3840 /\ height >= 2160 THEN "ultra"
        ELSE IF width >= 2560 /\ height >= 1440 THEN "high"
        ELSE IF width >= 1920 /\ height >= 1080 THEN "medium"
        ELSE "low"

determineQuality(constraints) ==
    LET width == OrDefault(constraints.width, DefaultWidth)
        height == OrDefault(constraints.height, DefaultHeight)
    IN  IF width >= 3840 /\ height >= 2160 THEN "ultra"
        ELSE IF width >= 2560 /\ height >= 1440 THEN "high"
        ELSE IF width >= 1920 /\ height >= 1080 THEN "medium"
        ELSE "low"

-----------------------------------------------------------------------------
(* ScreenShareManager, as functions on the two maps *)

MapGet(m, k) == IF k \in DOMAIN m THEN {m[k]} ELSE {}
MapSet(m, k, v) == (k :> v) @@ m
MapDelete(m, k) == [j \in (DOMAIN m) \ {k} |-> m[j]]

Event(type, userId, roomId, t) ==
    [type |-> type, userId |-> userId, roomId |-> roomId, timestamp |-> t]

\* addToHistory that drops the newest entry at capacity (pop for shift)
addToHistoryPop(hist, userId, event) ==
    LET history == IF userId \in DOMAIN hist THEN hist[userId] ELSE <<>>
        pushed == Append(history, event)
        kept == IF Len(pushed) > HistoryCap THEN SubSeq(pushed, 1, Len(pushed) - 1)
                ELSE pushed
    IN  MapSet(hist, userId, kept)

\* addToHistory that puts the event in front (unshift for push)
addToHistoryFront(hist, userId, event) ==
    LET history == IF userId \in DOMAIN hist THEN hist[userId] ELSE <<>>
        pushed == <<event>> \o history
        kept == IF Len(pushed) > HistoryCap THEN Tail(pushed) ELSE pushed
    IN  MapSet(hist, userId, kept)

addToHistory(hist, userId, event) ==
    LET history == IF userId \in DOMAIN hist THEN hist[userId] ELSE <<>>
        pushed == Append(history, event)
        kept == IF Len(pushed) > HistoryCap THEN Tail(pushed) ELSE pushed
    IN  MapSet(hist, userId, kept)

\* getScreenShareState: the stored record, or null (the empty set)
getScreenShareState(store, userId) == MapGet(store, userId)

getMetrics(hist, userId) == IF userId \in DOMAIN hist THEN hist[userId] ELSE <<>>

\* startScreenShare that keeps the tier and surface of an existing record
startStoreKeeps(store, userId, constraints) ==
    MapSet(store, userId,
           [isScreenSharing |-> TRUE,
            micOn |-> TRUE,
            camOn |-> FALSE,
            quality |-> IF userId \in DOMAIN store THEN store[userId].quality
                        ELSE determineQuality(constraints),
            displaySurface |-> IF userId \in DOMAIN store
                               THEN store[userId].displaySurface
                               ELSE IF constraints.displaySurface = NoSurface
                               THEN "unknown"
                               ELSE constraints.displaySurface])

startStore(store, userId, constraints) ==
    MapSet(store, userId,
           [isScreenSharing |-> TRUE,
            micOn |-> TRUE,
            camOn |-> FALSE,
            quality |-> determineQuality(constraints),
            displaySurface |-> IF constraints.displaySurface = NoSurface
                               THEN "unknown"
                               ELSE constraints.displaySurface])

\* stopScreenShare that writes a record whether or not one exists
stopStoreCreates(store, userId) ==
    MapSet(store, userId,
           [isScreenSharing |-> FALSE, micOn |-> TRUE, camOn |-> TRUE,
            quality |-> IF userId \in DOMAIN store THEN store[userId].quality ELSE "low",
            displaySurface |-> IF userId \in DOMAIN store
                               THEN store[userId].displaySurface ELSE "unknown"])

\* stopScreenShare that writes a fresh inactive record over the stored one
stopStoreResets(store, userId) ==
    IF userId \in DOMAIN store
    THEN MapSet(store, userId,
                [isScreenSharing |-> FALSE, micOn |-> TRUE, camOn |-> TRUE,
                 quality |-> "medium", displaySurface |-> "unknown"])
    ELSE store

stopStore(store, userId) ==
    IF userId \in DOMAIN store
    THEN MapSet(store, userId,
                [store[userId] EXCEPT !.isScreenSharing = FALSE, !.camOn = TRUE])
    ELSE store

\* handleScreenShareError that marks the record inactive and keeps it
errorStoreMarks(store, userId) == stopStore(store, userId)

errorStore(store, userId) == MapDelete(store, userId)

\* cleanup that forgets the delete
cleanupKeeps(store, userId) == store

\* cleanup that leaves an inactive record behind when it finds none
cleanupTombstone(store, userId) ==
    IF userId \in DOMAIN store THEN MapDelete(store, userId)
    ELSE MapSet(store, userId,
                [isScreenSharing |-> FALSE, micOn |-> TRUE, camOn |-> TRUE,
                 quality |-> "medium", displaySurface |-> "unknown"])

cleanup(store, userId) == MapDelete(store, userId)

\* The part of a manager call common to start, stop and error: build the
\* event with Date.now(), append it to the caller's history, return it.
Record(type, userId, roomId) ==
    /\ screenShareHistory' =
           addToHistory(screenShareHistory, userId, Event(type, userId, roomId, now))
    /\ appended' =
           MapSet(appended, userId,
                  Append(getMetrics(appended, userId), Event(type, userId, roomId, now)))
    /\ now' = now + 1

startScreenShare(userId, roomId, constraints) ==
    /\ activeScreenShares' = startStore(activeScreenShares, userId, constraints)
    /\ Record("start", userId, roomId)

stopScreenShare(userId, roomId) ==
    /\ activeScreenShares' = stopStore(activeScreenShares, userId)
    /\ Record("stop", userId, roomId)

handleScreenShareError(userId, roomId) ==
    /\ activeScreenShares' = errorStore(activeScreenShares, userId)
    /\ Record("error", userId, roomId)

-----------------------------------------------------------------------------
(* socket.io: rooms and emits *)

Members(roomId) == IF roomId \in DOMAIN rooms THEN rooms[roomId] ELSE {}

RECURSIVE SetToSeq(_)
SetToSeq(S) ==
    IF S = {} THEN <<>>
    ELSE LET m == CHOOSE a \in S : \A b \in S : a <= b
         IN  <<m>> \o SetToSeq(S \ {m})

\* socket.to(roomId): every member of the room except the sender
SocketTo(x, roomId) == Members(roomId) \ {x}

\* socket.nsp.to(roomId): every member of the room, given as rm
NspTo(rm, roomId) == IF roomId \in DOMAIN rm THEN rm[roomId] ELSE {}

NoState == {}

\* a message addressed to a chat scope `chat:<room>`, whose members are
\* kept by the chat module: `to` is ChatScope and payload names the room
ChatScope == 0

NoMsg ==
    [to |-> ChatScope, ev |-> "", userId |-> 0, state |-> NoState, event |-> {},
     reason |-> "", payload |-> "", media |-> {}, data |-> {}]

\* one emit to a set of receivers: one message per receiver
Emit(receivers, m) ==
    LET s == SetToSeq(receivers)
    IN  [i \in 1..Len(s) |-> [m EXCEPT !.to = s[i]]]

Count(y, ev, userId) ==
    Cardinality({i \in DOMAIN out :
                     out[i].to = y /\ out[i].ev = ev /\ out[i].userId = userId})

CountEv(y, ev) == Cardinality({i \in DOMAIN out : out[i].to = y /\ out[i].ev = ev})

Received(y, ev, userId) ==
    {out[i] : i \in {j \in DOMAIN out :
                         out[j].to = y /\ out[j].ev = ev /\ out[j].userId = userId}}

-----------------------------------------------------------------------------
(* The record of the handled event *)

NoEvent ==
    [kind |-> "none", from |-> 0, roomId |-> "", constraints |-> NoConstraints,
     flag |-> "undefined", pre |-> NoState, userRoom |-> "", ret |-> {},
     fault |-> "none", uncaught |-> FALSE, claimed |-> Absent, sdp |-> ""]

Handled(kind, x, roomId) ==
    [NoEvent EXCEPT !.kind = kind, !.from = x, !.roomId = roomId,
                    !.pre = getScreenShareState(activeScreenShares, x),
                    !.userRoom = IF x \in DOMAIN users THEN users[x].roomId ELSE ""]

-----------------------------------------------------------------------------
(* UserManager (src/backend/src/managers/UserManger.ts) *)

addUser(reg, id) == MapSet(reg, id, [roomId |-> ""])
setRoom(reg, id, roomId) ==
    IF id \in DOMAIN reg THEN MapSet(reg, id, [reg[id] EXCEPT !.roomId = roomId])
    ELSE reg
getUser(reg, id) == MapGet(reg, id)
removeUser(reg, id) == MapDelete(reg, id)

\* a join that does not enter the room
JoinSkips(rm, x, roomId) == rm

\* socket.join(roomId)
Join(rm, x, roomId) == [rm EXCEPT ![roomId] = @ \cup {x}]

\* socket.io takes a closing socket out of every room before it fires
\* "disconnect"
LeaveAll(rm, x) == [r \in DOMAIN rm |-> rm[r] \ {x}]

\* heartbeats.set(socket.id, setInterval(...))
setHeartbeat(hb, x) == hb \cup {x}

\* a disconnect that leaves the timer running
clearHeartbeatKeeps(hb, x) == hb

\* clearInterval(heartbeats.get(socket.id)); heartbeats.delete(socket.id)
clearHeartbeat(hb, x) == hb \ {x}

Connected == {x \in Conns : status[x] = "connected"}
Gone == {x \in Conns : status[x] = "gone"}

-----------------------------------------------------------------------------
(* Handlers of index.ts *)

ManagerIdle ==
    UNCHANGED <<activeScreenShares, screenShareHistory, now, appended>>

\* io.on("connection"): heartbeat timer, registry entry, optional auto-join
Connect(x, initialRoomId) ==
    /\ status[x] = "fresh"
    /\ \A y \in Conns : y < x => status[y] # "fresh"
    /\ status' = [status EXCEPT ![x] = "connected"]
    /\ heartbeats' = setHeartbeat(heartbeats, x)
    /\ users' = IF initialRoomId # ""
                THEN setRoom(addUser(users, x), x, initialRoomId)
                ELSE addUser(users, x)
    /\ rooms' = IF initialRoomId # "" THEN Join(rooms, x, initialRoomId) ELSE rooms
    /\ last' = Handled("connection", x, initialRoomId)
    /\ out' = <<>>
    /\ ManagerIdle
    /\ UNCHANGED <<script, hook>>

\* a join that replays to the joiner the payload last relayed to the room
ChatJoinReplays(x, roomId) ==
    /\ status[x] = "connected"
    /\ users' = IF roomId # "" THEN setRoom(users, x, roomId) ELSE users
    /\ rooms' = IF roomId # "" THEN Join(rooms, x, roomId) ELSE rooms
    /\ last' = Handled("chat:join", x, roomId)
    /\ out' = IF /\ roomId # "" /\ last.roomId = roomId
                 /\ last.kind \in {"screenshare:offer", "screenshare:answer",
                                   "screenshare:ice-candidate"}
                 /\ x \notin rooms[roomId] /\ x # last.from
              THEN <<[NoMsg EXCEPT !.to = x, !.ev = last.kind,
                                   !.userId = last.from, !.payload = "sdp"]>>
              ELSE <<>>
    /\ ManagerIdle
    /\ UNCHANGED <<status, heartbeats, script, hook>>

\* socket.on("chat:join")
ChatJoin(x, roomId) ==
    /\ status[x] = "connected"
    /\ users' = IF roomId # "" THEN setRoom(users, x, roomId) ELSE users
    /\ rooms' = IF roomId # "" THEN Join(rooms, x, roomId) ELSE rooms
    /\ last' = Handled("chat:join", x, roomId)
    /\ out' = <<>>
    /\ ManagerIdle
    /\ UNCHANGED <<status, heartbeats, script, hook>>

\* screenshare:start that reads the snapshot before the manager call
ScreenShareStartStale(x, roomId, constraints) ==
    /\ status[x] = "connected"
    /\ startScreenShare(x, roomId, constraints)
    /\ out' = Emit(SocketTo(x, roomId),
                   [NoMsg EXCEPT !.ev = "screenshare:peer-started", !.userId = x,
                                 !.state = getScreenShareState(activeScreenShares, x)])
              \o <<[NoMsg EXCEPT !.to = x, !.ev = "screenshare:start-success",
                                 !.userId = x,
                                 !.event = {Event("start", x, roomId, now)}]>>
    /\ last' = [Handled("screenshare:start", x, roomId) EXCEPT
                    !.constraints = constraints,
                    !.ret = {Event("start", x, roomId, now)}]
    /\ UNCHANGED <<status, heartbeats, users, rooms, script, hook>>

\* screenshare:start that yields between the manager call and the
\* broadcast, where the store update of a screenshare:stop for the same
\* id runs before the snapshot is read
ScreenShareStartInterleaved(x, roomId, constraints) ==
    /\ status[x] = "connected"
    /\ activeScreenShares' =
           stopStore(startStore(activeScreenShares, x, constraints), x)
    /\ screenShareHistory' =
           addToHistory(addToHistory(screenShareHistory, x,
                                     Event("start", x, roomId, now)),
                        x, Event("stop", x, roomId, now + 1))
    /\ appended' =
           MapSet(appended, x,
                  getMetrics(appended, x)
                  \o <<Event("start", x, roomId, now),
                       Event("stop", x, roomId, now + 1)>>)
    /\ now' = now + 2
    /\ out' = Emit(SocketTo(x, roomId),
                   [NoMsg EXCEPT !.ev = "screenshare:peer-started", !.userId = x,
                                 !.state = getScreenShareState(activeScreenShares', x)])
              \o <<[NoMsg EXCEPT !.to = x, !.ev = "screenshare:start-success",
                                 !.userId = x,
                                 !.event = {Event("start", x, roomId, now)}]>>
    /\ last' = [Handled("screenshare:start", x, roomId) EXCEPT
                    !.constraints = constraints,
                    !.ret = {Event("start", x, roomId, now)}]
    /\ UNCHANGED <<status, heartbeats, users, rooms, script, hook>>

\* socket.on("screenshare:start"), the try block
ScreenShareStart(x, roomId, constraints) ==
    /\ status[x] = "connected"
    /\ startScreenShare(x, roomId, constraints)
    /\ out' = Emit(SocketTo(x, roomId),
                   [NoMsg EXCEPT !.ev = "screenshare:peer-started", !.userId = x,
                                 !.state = getScreenShareState(activeScreenShares', x)])
              \o <<[NoMsg EXCEPT !.to = x, !.ev = "screenshare:start-success",
                                 !.userId = x,
                                 !.event = {Event("start", x, roomId, now)}]>>
    /\ last' = [Handled("screenshare:start", x, roomId) EXCEPT
                    !.constraints = constraints,
                    !.ret = {Event("start", x, roomId, now)}]
    /\ UNCHANGED <<status, heartbeats, users, rooms, script, hook>>

\* screenshare:stop that reads the snapshot before the manager call
ScreenShareStopStale(x, roomId) ==
    /\ status[x] = "connected"
    /\ stopScreenShare(x, roomId)
    /\ out' = Emit(SocketTo(x, roomId),
                   [NoMsg EXCEPT !.ev = "screenshare:peer-stopped", !.userId = x,
                                 !.state = getScreenShareState(activeScreenShares, x)])
              \o <<[NoMsg EXCEPT !.to = x, !.ev = "screenshare:stop-success",
                                 !.userId = x,
                                 !.event = {Event("stop", x, roomId, now)}]>>
    /\ last' = [Handled("screenshare:stop", x, roomId) EXCEPT
                    !.ret = {Event("stop", x, roomId, now)}]
    /\ UNCHANGED <<status, heartbeats, users, rooms, script, hook>>

FaultPoints == {"broadcast", "ack"}

\* socket.on("screenshare:start") when an emit of the try block throws:
\* `at` names the emit, socket.to(roomId).emit ("broadcast") or
\* socket.emit("screenshare:start-success") ("ack").  startScreenShare has
\* run; the catch block calls handleScreenShareError and emits
\* screenshare:error to the sender.
ScreenShareStartFails(x, roomId, constraints, at) ==
    /\ status[x] = "connected"
    /\ activeScreenShares' =
           errorStore(startStore(activeScreenShares, x, constraints), x)
    /\ screenShareHistory' =
           addToHistory(addToHistory(screenShareHistory, x,
                                     Event("start", x, roomId, now)),
                        x, Event("error", x, roomId, now + 1))
    /\ appended' =
           MapSet(appended, x,
                  getMetrics(appended, x)
                  \o <<Event("start", x, roomId, now),
                       Event("error", x, roomId, now + 1)>>)
    /\ now' = now + 2
    /\ out' = (IF at = "ack"
               THEN Emit(SocketTo(x, roomId),
                         [NoMsg EXCEPT
                              !.ev = "screenshare:peer-started", !.userId = x,
                              !.state = getScreenShareState(
                                            startStore(activeScreenShares, x,
                                                       constraints), x)])
               ELSE <<>>)
              \o <<[NoMsg EXCEPT !.to = x, !.ev = "screenshare:error",
                                 !.userId = x, !.reason = "unknown"]>>
    /\ last' = [Handled("screenshare:start", x, roomId) EXCEPT
                    !.constraints = constraints, !.fault = at,
                    !.ret = {Event("error", x, roomId, now + 1)}]
    /\ UNCHANGED <<status, heartbeats, users, rooms, script, hook>>

\* socket.on("screenshare:stop"), the try block
ScreenShareStop(x, roomId) ==
    /\ status[x] = "connected"
    /\ stopScreenShare(x, roomId)
    /\ out' = Emit(SocketTo(x, roomId),
                   [NoMsg EXCEPT !.ev = "screenshare:peer-stopped", !.userId = x,
                                 !.state = getScreenShareState(activeScreenShares', x)])
              \o <<[NoMsg EXCEPT !.to = x, !.ev = "screenshare:stop-success",
                                 !.userId = x,
                                 !.event = {Event("stop", x, roomId, now)}]>>
    /\ last' = [Handled("screenshare:stop", x, roomId) EXCEPT
                    !.ret = {Event("stop", x, roomId, now)}]
    /\ UNCHANGED <<status, heartbeats, users, rooms, script, hook>>

\* a quality change that is broadcast without looking at the stored state
QualityChangeUnchecked(x, roomId, quality) ==
    /\ status[x] = "connected"
    /\ out' = Emit(SocketTo(x, roomId),
                   [NoMsg EXCEPT !.ev = "screenshare:peer-quality-changed",
                                 !.userId = x, !.payload = quality])
    /\ last' = Handled("screenshare:quality-change", x, roomId)
    /\ ManagerIdle
    /\ UNCHANGED <<status, heartbeats, users, rooms, script, hook>>

\* socket.on("screenshare:quality-change")
QualityChange(x, roomId, quality) ==
    /\ status[x] = "connected"
    /\ LET currentState == getScreenShareState(activeScreenShares, x)
       IN  out' = IF currentState # {} /\ (\E s \in currentState : s.isScreenSharing)
                  THEN Emit(SocketTo(x, roomId),
                            [NoMsg EXCEPT !.ev = "screenshare:peer-quality-changed",
                                          !.userId = x, !.payload = quality])
                  ELSE <<>>
    /\ last' = Handled("screenshare:quality-change", x, roomId)
    /\ ManagerIdle
    /\ UNCHANGED <<status, heartbeats, users, rooms, script, hook>>

\* a room-state query that returns every stored state of the room
GetRoomStateUnfiltered(x, roomId) ==
    /\ status[x] = "connected"
    /\ LET roomSockets == Members(roomId)
           activeShares ==
               {<<socketId, activeScreenShares[socketId]>> :
                    socketId \in {m \in roomSockets :
                                      m \in DOMAIN activeScreenShares}}
       IN  out' = <<[NoMsg EXCEPT !.to = x, !.ev = "screenshare:get-room-state:reply",
                                  !.payload = "success", !.data = activeShares]>>
    /\ last' = Handled("screenshare:get-room-state", x, roomId)
    /\ ManagerIdle
    /\ UNCHANGED <<status, heartbeats, users, rooms, script, hook>>

\* socket.on("screenshare:get-room-state"): the reply goes to the callback
GetRoomState(x, roomId) ==
    /\ status[x] = "connected"
    /\ LET roomSockets == Members(roomId)
           activeShares ==
               {<<socketId, activeScreenShares[socketId]>> :
                    socketId \in {m \in roomSockets :
                                      /\ m \in DOMAIN activeScreenShares
                                      /\ activeScreenShares[m].isScreenSharing}}
       IN  out' = <<[NoMsg EXCEPT !.to = x, !.ev = "screenshare:get-room-state:reply",
                                  !.payload = "success", !.data = activeShares]>>
    /\ last' = Handled("screenshare:get-room-state", x, roomId)
    /\ ManagerIdle
    /\ UNCHANGED <<status, heartbeats, users, rooms, script, hook>>

RelayKinds == {"screenshare:offer", "screenshare:answer", "screenshare:ice-candidate"}
\* the payload of a relayed event: the sdp or candidate, and the sender the
\* client wrote into it (Absent for a payload without such a field)
Payloads == {[sdp |-> "sdp", from |-> Absent]}

\* a relay through io.to(roomId), which does not leave the sender out
RelayToAll(x, kind, roomId, payload) ==
    /\ status[x] = "connected"
    /\ out' = Emit(Members(roomId),
                   [NoMsg EXCEPT !.ev = kind, !.userId = x, !.payload = payload.sdp])
    /\ last' = [Handled(kind, x, roomId) EXCEPT !.claimed = payload.from,
                                                !.sdp = payload.sdp]
    /\ ManagerIdle
    /\ UNCHANGED <<status, heartbeats, users, rooms, script, hook>>

\* a relay that forwards only for a sender that is in the named room
RelayMembersOnly(x, kind, roomId, payload) ==
    /\ status[x] = "connected"
    /\ out' = IF x \in Members(roomId)
              THEN Emit(SocketTo(x, roomId),
                        [NoMsg EXCEPT !.ev = kind, !.userId = x, !.payload = payload.sdp])
              ELSE <<>>
    /\ last' = [Handled(kind, x, roomId) EXCEPT !.claimed = payload.from,
                                                !.sdp = payload.sdp]
    /\ ManagerIdle
    /\ UNCHANGED <<status, heartbeats, users, rooms, script, hook>>

\* a relay that takes the sender from the payload when the payload has one
RelayTrusts(x, kind, roomId, payload) ==
    /\ status[x] = "connected"
    /\ out' = Emit(SocketTo(x, roomId),
                   [NoMsg EXCEPT !.ev = kind,
                                 !.userId = IF payload.from = Absent THEN x
                                            ELSE payload.from,
                                 !.payload = payload.sdp])
    /\ last' = [Handled(kind, x, roomId) EXCEPT !.claimed = payload.from,
                                                !.sdp = payload.sdp]
    /\ ManagerIdle
    /\ UNCHANGED <<status, heartbeats, users, rooms, script, hook>>

\* socket.on("screenshare:offer" | "screenshare:answer" | "screenshare:ice-candidate")
Relay(x, kind, roomId, payload) ==
    /\ status[x] = "connected"
    /\ out' = Emit(SocketTo(x, roomId),
                   [NoMsg EXCEPT !.ev = kind, !.userId = x, !.payload = payload.sdp])
    /\ last' = [Handled(kind, x, roomId) EXCEPT !.claimed = payload.from,
                                                !.sdp = payload.sdp]
    /\ ManagerIdle
    /\ UNCHANGED <<status, heartbeats, users, rooms, script, hook>>

Flags == {"undefined", "true", "false"}
MediaChoices == {[micOn |-> FALSE, camOn |-> FALSE, from |-> Absent]}

\* a media-state change that registers a start whenever the flag is true
MediaStateChangeEager(x, flag, media) ==
    /\ status[x] = "connected"
    /\ LET u == getUser(users, x)
           roomId == IF u = {} THEN "" ELSE users[x].roomId
           currentState == getScreenShareState(activeScreenShares, x)
           sharing == \E s \in currentState : s.isScreenSharing
       IN  /\ IF roomId # "" /\ flag = "true"
              THEN startScreenShare(x, roomId, NoConstraints)
              ELSE IF roomId # "" /\ flag = "false" /\ sharing
              THEN stopScreenShare(x, roomId)
              ELSE ManagerIdle
           /\ out' = IF roomId # ""
                     THEN Emit(SocketTo(x, roomId),
                               [NoMsg EXCEPT !.ev = "peer-media-state-change",
                                             !.userId = x, !.payload = flag,
                                             !.media = {[micOn |-> media.micOn,
                                                             camOn |-> media.camOn]}])
                     ELSE <<>>
    /\ last' = [Handled("media-state-change", x, "") EXCEPT
                    !.flag = flag, !.claimed = media.from]
    /\ UNCHANGED <<status, heartbeats, users, rooms, script, hook>>

\* media-state-change that copies the event's micOn and camOn into the
\* record it starts
MediaStateChangeWrites(x, flag, media) ==
    /\ status[x] = "connected"
    /\ LET u == getUser(users, x)
           roomId == IF u = {} THEN "" ELSE users[x].roomId
           currentState == getScreenShareState(activeScreenShares, x)
           sharing == \E s \in currentState : s.isScreenSharing
       IN  /\ IF roomId # "" /\ flag = "true" /\ ~sharing
              THEN /\ activeScreenShares' =
                          [startStore(activeScreenShares, x, NoConstraints)
                               EXCEPT ![x].micOn = media.micOn,
                                      ![x].camOn = media.camOn]
                   /\ Record("start", x, roomId)
              ELSE IF roomId # "" /\ flag = "false" /\ sharing
              THEN stopScreenShare(x, roomId)
              ELSE ManagerIdle
           /\ out' = IF roomId # ""
                     THEN Emit(SocketTo(x, roomId),
                               [NoMsg EXCEPT !.ev = "peer-media-state-change",
                                             !.userId = x, !.payload = flag,
                                             !.media = {[micOn |-> media.micOn,
                                                             camOn |-> media.camOn]}])
                     ELSE <<>>
    /\ last' = [Handled("media-state-change", x, "") EXCEPT
                    !.flag = flag, !.claimed = media.from]
    /\ UNCHANGED <<status, heartbeats, users, rooms, script, hook>>

\* socket.on("media-state-change")
MediaStateChange(x, flag, media) ==
    /\ status[x] = "connected"
    /\ LET u == getUser(users, x)
           roomId == IF u = {} THEN "" ELSE users[x].roomId
           currentState == getScreenShareState(activeScreenShares, x)
           sharing == \E s \in currentState : s.isScreenSharing
       IN  /\ IF roomId # "" /\ flag = "true" /\ ~sharing
              THEN startScreenShare(x, roomId, NoConstraints)
              ELSE IF roomId # "" /\ flag = "false" /\ sharing
              THEN stopScreenShare(x, roomId)
              ELSE ManagerIdle
           /\ out' = IF roomId # ""
                     THEN Emit(SocketTo(x, roomId),
                               [NoMsg EXCEPT !.ev = "peer-media-state-change",
                                             !.userId = x, !.payload = flag,
                                             !.media = {[micOn |-> media.micOn,
                                                             camOn |-> media.camOn]}])
                     ELSE <<>>
    /\ last' = [Handled("media-state-change", x, "") EXCEPT
                    !.flag = flag, !.claimed = media.from]
    /\ UNCHANGED <<status, heartbeats, users, rooms, script, hook>>

NoPayloadKinds ==
    {"screenshare:start", "screenshare:stop", "screenshare:quality-change",
     "media-state-change"}

\* An event of one of these kinds sent with no payload object: the handler
\* destructures its first parameter, which throws a TypeError before the
\* body (and its try block) is entered.  Nothing catches it.
NoPayload(x, kind) ==
    /\ status[x] = "connected"
    /\ out' = <<>>
    /\ last' = [Handled(kind, x, "") EXCEPT !.uncaught = TRUE]
    /\ ManagerIdle
    /\ UNCHANGED <<status, heartbeats, users, rooms, script, hook>>

\* screenshare:get-room-state sent without an acknowledgement callback:
\* callback(...) throws inside the try block, and again inside the catch
GetRoomStateNoCallback(x, roomId) ==
    /\ status[x] = "connected"
    /\ out' = <<>>
    /\ last' = [Handled("screenshare:get-room-state", x, roomId) EXCEPT
                    !.uncaught = TRUE]
    /\ ManagerIdle
    /\ UNCHANGED <<status, heartbeats, users, rooms, script, hook>>

\* a disconnect that removes the registry entry before it looks the user
\* up, so that it finds no room to announce to
DisconnectUnannounced(x) ==
    /\ status[x] = "connected"
    /\ status' = [status EXCEPT ![x] = "gone"]
    /\ rooms' = LeaveAll(rooms, x)
    /\ heartbeats' = clearHeartbeat(heartbeats, x)
    /\ activeScreenShares' = cleanup(activeScreenShares, x)
    /\ users' = removeUser(users, x)
    /\ out' = IF getUser(users', x) # {}
              THEN <<[NoMsg EXCEPT !.ev = "chat:system", !.userId = x,
                                   !.payload = users'[x].roomId]>>
              ELSE <<>>
    /\ last' = Handled("disconnect", x, "")
    /\ UNCHANGED <<screenShareHistory, now, appended, script, hook>>

\* disconnect whose cleanup also drops the history of the connection
DisconnectForgets(x) ==
    /\ status[x] = "connected"
    /\ status' = [status EXCEPT ![x] = "gone"]
    /\ rooms' = LeaveAll(rooms, x)
    /\ heartbeats' = clearHeartbeat(heartbeats, x)
    /\ activeScreenShares' = cleanup(activeScreenShares, x)
    /\ screenShareHistory' = MapDelete(screenShareHistory, x)
    /\ LET u == getUser(users, x)
           roomId == IF u = {} THEN "" ELSE users[x].roomId
           screenShareState == getScreenShareState(activeScreenShares', x)
       IN  out' = IF roomId # ""
                  THEN <<[NoMsg EXCEPT !.ev = "chat:system", !.userId = x,
                                       !.payload = roomId]>>
                       \o (IF \E s \in screenShareState : s.isScreenSharing
                           THEN Emit(NspTo(rooms', roomId),
                                     [NoMsg EXCEPT !.ev = "screenshare:peer-stopped",
                                                   !.userId = x,
                                                   !.reason = "user-disconnected"])
                           ELSE <<>>)
                  ELSE <<>>
    /\ users' = removeUser(users, x)
    /\ last' = Handled("disconnect", x, "")
    /\ UNCHANGED <<now, appended, script, hook>>

\* socket.on("disconnect")
Disconnect(x) ==
    /\ status[x] = "connected"
    /\ status' = [status EXCEPT ![x] = "gone"]
    /\ rooms' = LeaveAll(rooms, x)
    /\ heartbeats' = clearHeartbeat(heartbeats, x)
    /\ activeScreenShares' = cleanup(activeScreenShares, x)
    /\ LET u == getUser(users, x)
           roomId == IF u = {} THEN "" ELSE users[x].roomId
           screenShareState == getScreenShareState(activeScreenShares', x)
       IN  out' = IF roomId # ""
                  THEN <<[NoMsg EXCEPT !.ev = "chat:system", !.userId = x,
                                       !.payload = roomId]>>
                       \o (IF \E s \in screenShareState : s.isScreenSharing
                           THEN Emit(NspTo(rooms', roomId),
                                     [NoMsg EXCEPT !.ev = "screenshare:peer-stopped",
                                                   !.userId = x,
                                                   !.reason = "user-disconnected"])
                           ELSE <<>>)
                  ELSE <<>>
    /\ users' = removeUser(users, x)
    /\ last' = Handled("disconnect", x, "")
    /\ UNCHANGED <<screenShareHistory, now, appended, script, hook>>

-----------------------------------------------------------------------------
(* useScreenShare (src/frontend/hooks/useScreenShare.ts)                   *)
(*                                                                         *)
(* The callbacks of a render close over that render's state.isSharing.     *)
(* `seen` is the value closed over by the callbacks of the current render; *)
(* a state update reaches the callbacks only with the next render.         *)
(* A call of the hook is one step: it completes, awaits included, before   *)
(* the next call or browser event begins.                                  *)

\* the hook after its first render, with props socket (non-null or not)
\* and roomId ("" for null)
NewHook(socket, roomId) ==
    [mounted |-> TRUE, socket |-> socket, roomId |-> roomId,
     isSharing |-> FALSE, isLoading |-> FALSE, error |-> "", stream |-> FALSE,
     streamRef |-> FALSE,     \* streamRef.current is a stream
     track |-> "none",        \* the captured video track: none, live, ended
     seen |-> FALSE,          \* state.isSharing in the current callbacks
     endedSees |-> FALSE,     \* state.isSharing in the onended handler's stop
     cleanupSees |-> FALSE,   \* state.isSharing in the unmount cleanup
     sent |-> <<>>,           \* events emitted to the server, in order
     call |-> "none", pre |-> FALSE, ret |-> "none"]

Captures ==
    {"ok", "unsupported", "NotAllowedError", "NotFoundError", "AbortError",
     "no-video-track", "replaceTrack-rejected"}

\* the catch block's message for a failed capture
ErrorMessage(capture) ==
    IF capture = "NotAllowedError" THEN "Screen sharing permission was denied"
    ELSE IF capture = "NotFoundError" THEN "No screen capture source available"
    ELSE IF capture = "AbortError" THEN "Screen sharing was cancelled"
    ELSE IF capture = "unsupported"
    THEN "Screen sharing is not supported in this browser"
    ELSE IF capture = "replaceTrack-rejected" THEN "replaceTrack rejected"
    ELSE "No video track available from screen capture"

\* startScreenShare that notifies the server before it asks for the capture
startScreenShareHookEager(h, sees, capture) ==
    IF ~(h.socket /\ h.roomId # "")
    THEN [h EXCEPT !.error = "Socket or room ID not available", !.ret = "false"]
    ELSE IF sees
    THEN [h EXCEPT !.ret = "false"]
    ELSE IF capture = "ok"
    THEN [h EXCEPT !.streamRef = TRUE, !.track = "live", !.endedSees = sees,
                   !.isSharing = TRUE, !.isLoading = FALSE, !.stream = TRUE,
                   !.error = "",
                   !.sent = Append(@, [ev |-> "screenshare:start",
                                       roomId |-> h.roomId]),
                   !.ret = "true"]
    ELSE [h EXCEPT !.isLoading = FALSE, !.error = ErrorMessage(capture),
                   !.sent = Append(@, [ev |-> "screenshare:start",
                                       roomId |-> h.roomId]),
                   !.ret = "false"]

\* startScreenShare as created by a render whose state.isSharing was `sees`
startScreenShareHook(h, sees, capture) ==
    IF ~(h.socket /\ h.roomId # "")
    THEN [h EXCEPT !.error = "Socket or room ID not available", !.ret = "false"]
    ELSE IF sees
    THEN [h EXCEPT !.ret = "false"]
    ELSE IF capture = "ok"
    THEN [h EXCEPT !.streamRef = TRUE, !.track = "live", !.endedSees = sees,
                   !.isSharing = TRUE, !.isLoading = FALSE, !.stream = TRUE,
                   !.error = "",
                   !.sent = Append(@, [ev |-> "screenshare:start",
                                       roomId |-> h.roomId]),
                   !.ret = "true"]
    ELSE IF capture = "replaceTrack-rejected"
    THEN [h EXCEPT !.streamRef = TRUE, !.track = "live", !.isLoading = FALSE,
                   !.error = ErrorMessage(capture), !.ret = "false"]
    ELSE [h EXCEPT !.isLoading = FALSE, !.error = ErrorMessage(capture),
                   !.ret = "false"]

\* stopScreenShare as created by a render whose state.isSharing was `sees`
stopScreenShareHook(h, sees) ==
    IF ~sees
    THEN [h EXCEPT !.ret = "false"]
    ELSE [h EXCEPT !.track = IF h.streamRef /\ @ = "live" THEN "ended" ELSE @,
                   !.streamRef = FALSE, !.isSharing = FALSE, !.stream = FALSE,
                   !.error = "",
                   !.sent = IF h.socket /\ h.roomId # ""
                            THEN Append(@, [ev |-> "screenshare:stop",
                                            roomId |-> h.roomId])
                            ELSE @,
                   !.ret = "true"]

ServerIdle ==
    UNCHANGED <<status, heartbeats, users, rooms, activeScreenShares,
                screenShareHistory, now, last, out, appended, script>>

HookCall(kind, h) ==
    /\ hook' = [h EXCEPT !.call = kind, !.pre = hook.isSharing]
    /\ Len(hook'.sent) <= MaxHookSends
    /\ ServerIdle

\* React renders again after a state update: new callbacks see the state
HookRender ==
    /\ hook.mounted
    /\ hook.seen # hook.isSharing
    /\ hook' = [hook EXCEPT !.seen = hook.isSharing, !.call = "render",
                            !.pre = hook.isSharing, !.ret = "none"]
    /\ ServerIdle

\* the component calls startScreenShare of the current render
HookStart(capture) ==
    /\ hook.mounted
    /\ HookCall("startScreenShare", startScreenShareHook(hook, hook.seen, capture))

\* the component calls stopScreenShare of the current render
HookStop ==
    /\ hook.mounted
    /\ HookCall("stopScreenShare", stopScreenShareHook(hook, hook.seen))

\* toggleScreenShare of the current render
HookToggle(capture) ==
    /\ hook.mounted
    /\ HookCall("toggleScreenShare",
                IF hook.seen THEN stopScreenShareHook(hook, hook.seen)
                ELSE startScreenShareHook(hook, hook.seen, capture))

\* the user ends the capture in the browser UI: the track ends and its
\* onended handler calls the stopScreenShare bound when the share started
HookTrackEnded ==
    /\ hook.track = "live"
    /\ HookCall("onended",
                stopScreenShareHook([hook EXCEPT !.track = "ended"],
                                    hook.endedSees))

\* the component unmounts: the cleanup of the effect of the first render
HookUnmount ==
    /\ hook.mounted
    /\ HookCall("unmount",
                IF hook.cleanupSees
                THEN stopScreenShareHook([hook EXCEPT !.mounted = FALSE],
                                         hook.cleanupSees)
                ELSE [hook EXCEPT !.mounted = FALSE, !.ret = "none"])

-----------------------------------------------------------------------------
(* The coordinator *)

Init ==
    /\ status = [x \in Conns |-> "fresh"]
    /\ heartbeats = {}
    /\ users = <<>>
    /\ rooms = [r \in RoomNames |-> {}]
    /\ activeScreenShares = <<>>
    /\ screenShareHistory = <<>>
    /\ now = 0
    /\ last = NoEvent
    /\ out = <<>>
    /\ appended = <<>>
    /\ script = <<>>
    /\ hook = NewHook(TRUE, "r1")

\* the clock bound: a handler that calls the manager needs a tick left
Ticks(limit) == now' = now \/ now < limit

Next ==
    \/ \E x \in 1..MaxConns, r \in PayloadRooms : Connect(x, r)
    \/ \E x \in 1..MaxConns, r \in PayloadRooms : ChatJoin(x, r)
    \/ \E x \in 1..MaxConns, r \in RoomNames, c \in ConstraintChoices :
           ScreenShareStart(x, r, c) /\ Ticks(MaxTime)
    \/ \E x \in 1..MaxConns, r \in RoomNames : ScreenShareStop(x, r) /\ Ticks(MaxTime)
    \/ \E x \in 1..MaxConns, r \in RoomNames : QualityChange(x, r, "high")
    \/ \E x \in 1..MaxConns, r \in RoomNames : GetRoomState(x, r)
    \/ \E x \in 1..MaxConns, k \in RelayKinds, r \in RoomNames, p \in Payloads :
           Relay(x, k, r, p)
    \/ \E x \in 1..MaxConns, f \in Flags, m \in MediaChoices :
           MediaStateChange(x, f, m) /\ Ticks(MaxTime)
    \/ \E x \in 1..MaxConns : Disconnect(x)

Spec == Init /\ [][Next]_vars

\* the coordinator under payloads that name a sender of the client's choice
SenderTime == 1
SenderClaims == {Absent} \cup (1..MaxConns)
SpoofPayloads == {[sdp |-> s, from |-> c] : s \in {"sdp", "sdp2"}, c \in SenderClaims}
SpoofMedia == {[micOn |-> FALSE, camOn |-> FALSE, from |-> c] : c \in SenderClaims}

NextSender ==
    \/ \E x \in 1..MaxConns, r \in PayloadRooms : Connect(x, r)
    \/ \E x \in 1..MaxConns, r \in PayloadRooms : ChatJoin(x, r)
    \/ \E x \in 1..MaxConns, r \in RoomNames :
           ScreenShareStart(x, r, NoConstraints) /\ Ticks(SenderTime)
    \/ \E x \in 1..MaxConns, r \in RoomNames : ScreenShareStop(x, r) /\ Ticks(SenderTime)
    \/ \E x \in 1..MaxConns, r \in RoomNames : QualityChange(x, r, "high")
    \/ \E x \in 1..MaxConns, k \in RelayKinds, r \in RoomNames, p \in SpoofPayloads :
           Relay(x, k, r, p)
    \/ \E x \in 1..MaxConns, f \in Flags, m \in SpoofMedia :
           MediaStateChange(x, f, m) /\ Ticks(SenderTime)
    \/ \E x \in 1..MaxConns : Disconnect(x)

SpecSender == Init /\ [][NextSender]_vars

\* the same coordinator with more connections and fewer manager calls
NextWide ==
    \/ \E x \in 1..WideConns, r \in PayloadRooms : Connect(x, r)
    \/ \E x \in 1..WideConns, r \in PayloadRooms : ChatJoin(x, r)
    \/ \E x \in 1..WideConns, r \in RoomNames, c \in ConstraintChoices :
           ScreenShareStart(x, r, c) /\ Ticks(WideTime)
    \/ \E x \in 1..WideConns, r \in RoomNames : ScreenShareStop(x, r) /\ Ticks(WideTime)
    \/ \E x \in 1..WideConns, r \in RoomNames : QualityChange(x, r, "high")
    \/ \E x \in 1..WideConns, r \in RoomNames : GetRoomState(x, r)
    \/ \E x \in 1..WideConns, k \in RelayKinds, r \in RoomNames, p \in Payloads :
           Relay(x, k, r, p)
    \/ \E x \in 1..WideConns, f \in Flags, m \in MediaChoices :
           MediaStateChange(x, f, m) /\ Ticks(WideTime)
    \/ \E x \in 1..WideConns : Disconnect(x)

SpecWide == Init /\ [][NextWide]_vars

\* the coordinator under malformed events (no payload object, no callback,
\* an empty roomId) and under an emit that throws
NextEdge ==
    \/ \E x \in 1..MaxConns, r \in PayloadRooms : Connect(x, r)
    \/ \E x \in 1..MaxConns, r \in PayloadRooms : ChatJoin(x, r)
    \/ \E x \in 1..MaxConns, r \in PayloadRooms, c \in ConstraintChoices :
           ScreenShareStart(x, r, c) /\ now' <= EdgeTime
    \/ \E x \in 1..MaxConns, r \in RoomNames, c \in ConstraintChoices,
           at \in FaultPoints :
           ScreenShareStartFails(x, r, c, at) /\ now' <= EdgeTime
    \/ \E x \in 1..MaxConns, r \in RoomNames :
           ScreenShareStop(x, r) /\ now' <= EdgeTime
    \/ \E x \in 1..MaxConns, k \in NoPayloadKinds : NoPayload(x, k)
    \/ \E x \in 1..MaxConns, r \in RoomNames : GetRoomState(x, r)
    \/ \E x \in 1..MaxConns, r \in RoomNames : GetRoomStateNoCallback(x, r)
    \/ \E x \in 1..MaxConns : Disconnect(x)

SpecEdge == Init /\ [][NextEdge]_vars

-----------------------------------------------------------------------------
(* The ScreenShareManager on its own: its public methods called directly   *)

ManagerIds == 1..2

CoordinatorIdle == UNCHANGED <<status, heartbeats, users, rooms, out, script, hook>>

Called(kind, userId, roomId) ==
    [NoEvent EXCEPT !.kind = kind, !.from = userId, !.roomId = roomId,
                    !.pre = getScreenShareState(activeScreenShares, userId)]

MgrStart(userId, roomId, constraints) ==
    /\ startScreenShare(userId, roomId, constraints)
    /\ last' = [Called("startScreenShare", userId, roomId) EXCEPT
                    !.constraints = constraints,
                    !.ret = {Event("start", userId, roomId, now)}]
    /\ CoordinatorIdle

MgrStop(userId, roomId) ==
    /\ stopScreenShare(userId, roomId)
    /\ last' = [Called("stopScreenShare", userId, roomId) EXCEPT
                    !.ret = {Event("stop", userId, roomId, now)}]
    /\ CoordinatorIdle

MgrError(userId, roomId) ==
    /\ handleScreenShareError(userId, roomId)
    /\ last' = [Called("handleScreenShareError", userId, roomId) EXCEPT
                    !.ret = {Event("error", userId, roomId, now)}]
    /\ CoordinatorIdle

MgrCleanup(userId) ==
    /\ activeScreenShares' = cleanup(activeScreenShares, userId)
    /\ last' = Called("cleanup", userId, "")
    /\ UNCHANGED <<screenShareHistory, now, appended>>
    /\ CoordinatorIdle

\* getActiveScreenSharesInRoom(roomId): the entries of the store whose
\* flag is set; the parameter is not read
getActiveScreenSharesInRoom(store, roomId) ==
    {<<userId, store[userId]>> :
         userId \in {u \in DOMAIN store : store[u].isScreenSharing}}

\* a call of getActiveScreenSharesInRoom; its result is kept in out until
\* the next such call
MgrActiveInRoom(roomId) ==
    /\ out' = <<[NoMsg EXCEPT !.ev = "getActiveScreenSharesInRoom",
                              !.data = getActiveScreenSharesInRoom(
                                           activeScreenShares, roomId)]>>
    /\ last' = [NoEvent EXCEPT !.kind = "getActiveScreenSharesInRoom",
                               !.roomId = roomId]
    /\ ManagerIdle
    /\ UNCHANGED <<status, heartbeats, users, rooms, script, hook>>

\* start / stop / error in any order
NextCalls ==
    \/ \E u \in ManagerIds, r \in RoomNames, c \in ConstraintChoices :
           now < MaxCalls /\ MgrStart(u, r, c)
    \/ \E u \in ManagerIds, r \in RoomNames : now < MaxCalls /\ MgrStop(u, r)
    \/ \E u \in ManagerIds, r \in RoomNames : now < MaxCalls /\ MgrError(u, r)

SpecCalls == Init /\ [][NextCalls]_vars

\* the manager calls with the room query
NextRooms ==
    \/ \E u \in ManagerIds, r \in RoomNames, c \in ConstraintChoices :
           now < MaxCalls /\ MgrStart(u, r, c)
    \/ \E u \in ManagerIds, r \in RoomNames :
           now < MaxCalls /\ MgrStop(u, r)
    \/ \E r \in RoomNames : MgrActiveInRoom(r)

SpecRooms == Init /\ [][NextRooms]_vars

\* the same with cleanup
NextManager ==
    \/ \E u \in ManagerIds, r \in RoomNames, c \in ConstraintChoices :
           now < MaxCalls /\ MgrStart(u, r, c)
    \/ \E u \in ManagerIds, r \in RoomNames : now < MaxCalls /\ MgrStop(u, r)
    \/ \E u \in ManagerIds, r \in RoomNames : now < MaxCalls /\ MgrError(u, r)
    \/ \E u \in ManagerIds : MgrCleanup(u)

SpecManager == Init /\ [][NextManager]_vars

-----------------------------------------------------------------------------
(* One identity's history under a long run of calls.  The run repeats a    *)
(* pattern of ScriptLen calls drawn at the start; a second identity is     *)
(* called OtherCalls times at any point of the run.                        *)

CallKinds == {"start", "stop", "error"}

InitHist ==
    /\ status = [x \in Conns |-> "fresh"]
    /\ heartbeats = {}
    /\ users = <<>>
    /\ rooms = [r \in RoomNames |-> {}]
    /\ activeScreenShares = <<>>
    /\ screenShareHistory = <<>>
    /\ now = 0
    /\ last = NoEvent
    /\ out = <<>>
    /\ appended = <<>>
    /\ script \in [1..ScriptLen -> CallKinds]
    /\ hook = NewHook(TRUE, "r1")

Scripted(kind) == now < MaxAppends /\ script[(now % ScriptLen) + 1] = kind

NextHist ==
    \/ Scripted("start") /\ MgrStart(1, "r1", NoConstraints)
    \/ Scripted("stop") /\ MgrStop(1, "r1")
    \/ Scripted("error") /\ MgrError(1, "r1")
    \/ /\ now < MaxAppends
       /\ Len(getMetrics(appended, 2)) < OtherCalls
       /\ MgrStop(2, "r2")

SpecHist == InitHist /\ [][NextHist]_vars

-----------------------------------------------------------------------------
(* determineQuality through startScreenShare, over a grid of dimensions    *)

NextQuality ==
    \E c \in QualityInputs : now < QualityCalls /\ MgrStart(1, "r1", c)

SpecQuality == Init /\ [][NextQuality]_vars

-----------------------------------------------------------------------------
(* The hook alone, for every choice of its socket and roomId props         *)

InitHook ==
    /\ status = [x \in Conns |-> "fresh"]
    /\ heartbeats = {}
    /\ users = <<>>
    /\ rooms = [r \in RoomNames |-> {}]
    /\ activeScreenShares = <<>>
    /\ screenShareHistory = <<>>
    /\ now = 0
    /\ last = NoEvent
    /\ out = <<>>
    /\ appended = <<>>
    /\ script = <<>>
    /\ hook \in {NewHook(socket, roomId) :
                    socket \in BOOLEAN, roomId \in PayloadRooms}

NextHook ==
    \/ HookRender
    \/ \E capture \in Captures : HookStart(capture)
    \/ HookStop
    \/ \E capture \in Captures : HookToggle(capture)
    \/ HookTrackEnded
    \/ HookUnmount

SpecHook == InitHook /\ [][NextHook]_vars

-----------------------------------------------------------------------------
(* Properties *)

Sharing(store, userId) ==
    \E s \in getScreenShareState(store, userId) : s.isScreenSharing

RoomsOf(x) == {r \in RoomNames : x \in rooms[r]}

\* C1: after the disconnect of a connection that was actively sharing and
\* is assigned to room R, every remaining member of R has received exactly
\* one screenshare:peer-stopped about it, with reason "user-disconnected".
C1_PeerStoppedOnDisconnect ==
    (last.kind = "disconnect" /\ last.userRoom # ""
        /\ \E s \in last.pre : s.isScreenSharing)
    => \A y \in rooms[last.userRoom] :
           /\ Count(y, "screenshare:peer-stopped", last.from) = 1
           /\ \A m \in Received(y, "screenshare:peer-stopped", last.from) :
                  m.reason = "user-disconnected"

\* C2: a connection whose disconnect handler has completed has no record
\* in the state store, in that state and in every later one.
C2_NoRecordAfterDisconnect ==
    \A x \in Gone : getScreenShareState(activeScreenShares, x) = {}

\* a connection that was sharing has disconnected, and another event has
\* been handled since
C2_Witness ==
    \E x \in Gone :
        /\ \E i \in DOMAIN getMetrics(screenShareHistory, x) :
               screenShareHistory[x][i].type = "start"
        /\ last.kind # "disconnect"
        /\ last.from # x

\* C3: a connection id is in at most one room's member set; after a
\* chat:join naming room B the connection is a member of B only and its
\* registry room is B.
C3_ExclusiveMembership ==
    /\ \A x \in Conns : Cardinality(RoomsOf(x)) <= 1
    /\ (last.kind = "chat:join" /\ last.roomId # "")
       => /\ RoomsOf(last.from) = {last.roomId}
          /\ users[last.from].roomId = last.roomId

\* C4: over every sequence of start / stop / error calls on one identity,
\* a stored sharing flag is the one implied by the most recent non-error
\* call (true after start, false after stop), a start leaves a record, and
\* right after an error call getScreenShareState returns null.
LastNonError(h) ==
    LET idx == {i \in DOMAIN h : h[i].type # "error"}
    IN  IF idx = {} THEN "none"
        ELSE h[CHOOSE i \in idx : \A j \in idx : j <= i].type

C4_FlagFollowsLastCall ==
    \A u \in DOMAIN screenShareHistory :
        LET h == screenShareHistory[u]
            state == getScreenShareState(activeScreenShares, u)
        IN  /\ \A s \in state : s.isScreenSharing = (LastNonError(h) = "start")
            /\ h[Len(h)].type = "start" => state # {}
            /\ h[Len(h)].type = "error" => state = {}

\* start, error, start, ... : a record exists again after an error
C4_Witness ==
    \E u \in DOMAIN screenShareHistory :
        LET h == screenShareHistory[u]
        IN  /\ Len(h) = 3
            /\ h[1].type = "start" /\ h[2].type = "error" /\ h[3].type = "start"
            /\ Sharing(activeScreenShares, u)

\* C5: stopScreenShare on an identity without a record returns a stop
\* event and leaves the store without a record for it; a second stop
\* right after a stop would not change the store.
C5_StopWithoutRecord ==
    last.kind = "stopScreenShare"
    => /\ \E e \in last.ret :
              e.type = "stop" /\ e.userId = last.from /\ e.roomId = last.roomId
       /\ last.pre = {} => getScreenShareState(activeScreenShares, last.from) = {}
       /\ stopStore(activeScreenShares, last.from) = activeScreenShares

\* a stop on an identity whose record an error or a cleanup had deleted
C5_Witness ==
    /\ last.kind = "stopScreenShare"
    /\ last.pre = {}
    /\ Len(getMetrics(screenShareHistory, last.from)) >= 2
    /\ screenShareHistory[last.from][1].type = "start"

\* C6: a history never holds more than 50 events, and it is the last 50
\* events appended for the identity, in arrival order.
C6_HistoryIsLast50 ==
    \A u \in DOMAIN screenShareHistory :
        LET h == getMetrics(screenShareHistory, u)
            a == appended[u]
            n == Len(a)
        IN  /\ Len(h) <= HistoryCap
            /\ h = IF n > HistoryCap THEN SubSeq(a, n - HistoryCap + 1, n) ELSE a

\* more than 51 appends to one identity
C6_Witness ==
    \E u \in DOMAIN appended :
        Len(appended[u]) > HistoryCap + 1 /\ Len(screenShareHistory[u]) = HistoryCap

\* C7: a relayed offer / answer / ICE candidate naming room R reaches every
\* member of R except the origin exactly once, and no one else.
C7_RelayFanout ==
    last.kind \in RelayKinds
    => /\ \A y \in Conns :
              CountEv(y, last.kind) =
                  IF y \in rooms[last.roomId] \ {last.from} THEN 1 ELSE 0
       /\ \A i \in DOMAIN out :
              /\ out[i].ev = last.kind
              /\ out[i].to \in rooms[last.roomId] \ {last.from}
              /\ out[i].userId = last.from

\* the origin and another member are in R while a third connection is not
C7_Witness ==
    /\ last.kind \in RelayKinds
    /\ last.from \in rooms[last.roomId]
    /\ rooms[last.roomId] \ {last.from} # {}
    /\ Connected \ rooms[last.roomId] # {}
    /\ Len(out) = 1

\* C8 as stated: the stored tier is decided by the thresholds on the
\* requested width and height, for every requested pair.
Tier(w, h) ==
    IF w >= 3840 /\ h >= 2160 THEN "ultra"
    ELSE IF w >= 2560 /\ h >= 1440 THEN "high"
    ELSE IF w >= 1920 /\ h >= 1080 THEN "medium"
    ELSE "low"

C8_TierOfRequested ==
    (last.kind = "startScreenShare"
        /\ last.constraints.width # Absent /\ last.constraints.height # Absent)
    => activeScreenShares[last.from].quality =
           Tier(last.constraints.width, last.constraints.height)

\* C8 amended: the stored tier is decided by the thresholds for every
\* requested pair of positive dimensions.
C8_TierOfPositive ==
    (last.kind = "startScreenShare"
        /\ last.constraints.width > 0 /\ last.constraints.height > 0)
    => activeScreenShares[last.from].quality =
           Tier(last.constraints.width, last.constraints.height)

\* the mixed pair (3840, 1440) is stored as high
C8_Witness ==
    /\ last.kind = "startScreenShare"
    /\ last.constraints.width = 3840 /\ last.constraints.height = 1440
    /\ activeScreenShares[last.from].quality = "high"

\* C9: after a screenshare:start from X naming R the store holds
\* sharing=true for X, X has exactly one start-success and no error, and
\* every other member of R (and no one else) has exactly one peer-started
\* whose snapshot is X's stored state.
C9_StartBroadcast ==
    (last.kind = "screenshare:start" /\ last.roomId # "" /\ ~last.uncaught)
    => /\ Sharing(activeScreenShares, last.from)
       /\ CountEv(last.from, "screenshare:start-success") = 1
       /\ CountEv(last.from, "screenshare:error") = 0
       /\ \A y \in Conns \ {last.from} :
              /\ CountEv(y, "screenshare:peer-started") =
                     IF y \in rooms[last.roomId] THEN 1 ELSE 0
              /\ Count(y, "screenshare:peer-started", last.from) =
                     CountEv(y, "screenshare:peer-started")
              /\ \A m \in Received(y, "screenshare:peer-started", last.from) :
                     /\ m.state = getScreenShareState(activeScreenShares, last.from)
                     /\ \E s \in m.state :
                            /\ s.isScreenSharing
                            /\ s.quality = activeScreenShares[last.from].quality

\* a start stored at quality ultra, heard by two other members of R
C9_Witness ==
    /\ last.kind = "screenshare:start"
    /\ Cardinality(rooms[last.roomId] \ {last.from}) = 2
    /\ activeScreenShares[last.from].quality = "ultra"

\* C10: after a screenshare:stop from X naming R, X has exactly one
\* stop-success and every other member of R (and no one else) has exactly
\* one peer-stopped whose snapshot is X's stored state after the stop,
\* which is not a sharing state; also when X had no active share.
C10_StopBroadcast ==
    (last.kind = "screenshare:stop" /\ last.roomId # "" /\ ~last.uncaught)
    => /\ CountEv(last.from, "screenshare:stop-success") = 1
       /\ ~Sharing(activeScreenShares, last.from)
       /\ \A y \in Conns \ {last.from} :
              /\ CountEv(y, "screenshare:peer-stopped") =
                     IF y \in rooms[last.roomId] THEN 1 ELSE 0
              /\ Count(y, "screenshare:peer-stopped", last.from) =
                     CountEv(y, "screenshare:peer-stopped")
              /\ \A m \in Received(y, "screenshare:peer-stopped", last.from) :
                     /\ m.state = getScreenShareState(activeScreenShares, last.from)
                     /\ \A s \in m.state : ~s.isScreenSharing

\* X was sharing and another member of R hears the stop
C10_Witness ==
    /\ last.kind = "screenshare:stop"
    /\ \E s \in last.pre : s.isScreenSharing
    /\ rooms[last.roomId] \ {last.from} # {}

\* the room whose peers the handled event addresses
EventRoom == IF last.kind \in {"screenshare:start", "screenshare:stop"}
             THEN last.roomId ELSE last.userRoom

StoreAndBroadcastKinds ==
    {"screenshare:start", "screenshare:stop", "media-state-change", "disconnect"}

\* C11: in the handlers that change the store and broadcast, a broadcast
\* snapshot is the state committed by the event, and an event that commits
\* the end of an active share with peers in its room tells those peers:
\* the notice is not lost because the mutation ran before the decision.
C11_BroadcastReflectsCommitted ==
    last.kind \in StoreAndBroadcastKinds
    => /\ \A i \in DOMAIN out :
              out[i].ev \in {"screenshare:peer-started", "screenshare:peer-stopped"}
              => /\ last.kind \in {"screenshare:start", "screenshare:stop"}
                 /\ out[i].state = getScreenShareState(activeScreenShares, last.from)
       /\ (/\ EventRoom # ""
           /\ \E s \in last.pre : s.isScreenSharing
           /\ ~Sharing(activeScreenShares, last.from)
           /\ rooms[EventRoom] \ {last.from} # {})
          => \A y \in rooms[EventRoom] \ {last.from} :
                 \E i \in DOMAIN out :
                     /\ out[i].to = y
                     /\ out[i].ev \in {"screenshare:peer-stopped",
                                       "peer-media-state-change"}

\* C12: no handler ends with an uncaught exception, whatever the shape of
\* the inbound event: an event without a payload object or a room-state
\* query without a callback is handled, and nothing is sent to a peer.
C12_NeverUncaught ==
    /\ ~last.uncaught
    /\ (last.kind \in NoPayloadKinds /\ EventRoom = "")
       => \A i \in DOMAIN out : out[i].to = last.from

\* C14: a screenshare:start whose roomId is empty takes no effect: no
\* active-share record is created or changed, nothing is broadcast, and
\* the origin is told of a failure rather than of a success.
C14_StartNeedsRoom ==
    (last.kind = "screenshare:start" /\ last.roomId = "" /\ ~last.uncaught)
    => /\ getScreenShareState(activeScreenShares, last.from) = last.pre
       /\ \A i \in DOMAIN out : out[i].to = last.from
       /\ CountEv(last.from, "screenshare:start-success") = 0
       /\ CountEv(last.from, "screenshare:error") = 1

\* C13: when the handling of a screenshare:start from X takes the error
\* path, the store holds no record for X, an error event is the newest
\* entry of X's history, X has exactly one screenshare:error, and no
\* message of that event went to anyone but X.
C13_FailedStartIsSilent ==
    (last.kind = "screenshare:start" /\ last.fault # "none")
    => /\ getScreenShareState(activeScreenShares, last.from) = {}
       /\ LET h == getMetrics(screenShareHistory, last.from)
          IN  Len(h) > 0 /\ h[Len(h)].type = "error"
       /\ CountEv(last.from, "screenshare:error") = 1
       /\ \A i \in DOMAIN out : out[i].to = last.from

\* C18: between handler executions the ids holding a liveness timer are
\* exactly the connected ids, which are exactly the ids of the registry:
\* no timer exists for a connection that has disconnected or never
\* connected, and every connected one has its timer.
C18_TimersMatchConnections ==
    /\ heartbeats = Connected
    /\ heartbeats = DOMAIN users

\* a disconnect has run while another connection stays connected
C18_Witness ==
    /\ last.kind = "disconnect"
    /\ last.from \notin heartbeats
    /\ heartbeats # {}

\* the connections addressed by the messages of a sequence
Receivers(msgs) == {msgs[i].to : i \in DOMAIN msgs}

C16_RoomStateQuery ==
    [][(last'.kind = "screenshare:get-room-state" /\ ~last'.uncaught)
       => /\ Len(out') = 1
          /\ out'[1].to = last'.from
          /\ out'[1].payload = "success"
          /\ out'[1].data =
                 {<<m, activeScreenShares[m]>> :
                      m \in {y \in rooms[last'.roomId] :
                                 Sharing(activeScreenShares, y)}}
          /\ (rooms[last'.roomId] = {} => out'[1].data = {})
          /\ UNCHANGED <<status, heartbeats, users, rooms, activeScreenShares,
                         screenShareHistory, now>>]_vars

\* a query for a room of two members, one sharing and in the reply, the
\* other not sharing and left out
C16_Witness ==
    /\ last.kind = "screenshare:get-room-state"
    /\ ~last.uncaught
    /\ Cardinality(out[1].data) = 1
    /\ \E y \in rooms[last.roomId] : ~Sharing(activeScreenShares, y)

\* C17: after a media-state-change with a defined isScreenSharing flag b
\* from X, which has a current room, X is sharing in the store iff b is
\* true; the history grows only when the stored flag differed from b, by
\* one start or stop event of X; when X has no current room the store and
\* the history are unchanged and nothing is sent.
C17_MediaStateReconciles ==
    [][(last'.kind = "media-state-change" /\ ~last'.uncaught)
       => LET x == last'.from
              was == Sharing(activeScreenShares, x)
          IN  /\ (last'.userRoom # "" /\ last'.flag # "undefined")
                 => (Sharing(activeScreenShares', x) <=> last'.flag = "true")
              /\ appended' # appended
                 => /\ last'.userRoom # ""
                    /\ last'.flag # "undefined"
                    /\ was # (last'.flag = "true")
                    /\ getMetrics(appended', x) =
                          Append(getMetrics(appended, x),
                                 Event(IF was THEN "stop" ELSE "start", x,
                                       last'.userRoom, now))
              /\ (screenShareHistory' # screenShareHistory
                      \/ activeScreenShares' # activeScreenShares)
                 => appended' # appended
              /\ last'.userRoom = ""
                 => /\ out' = <<>>
                    /\ UNCHANGED <<activeScreenShares, screenShareHistory,
                                   appended>>]_vars

\* a sharing connection with a room reported isScreenSharing false and
\* its peers were told
C17_Witness ==
    /\ last.kind = "media-state-change"
    /\ last.flag = "false"
    /\ last.userRoom # ""
    /\ \E s \in last.pre : s.isScreenSharing
    /\ ~Sharing(activeScreenShares, last.from)
    /\ out # <<>>

\* C19: after startScreenShare for a connection, whether or not it had a
\* record, its one record is the record a first start with the same
\* constraints creates: sharing, with the tier and the display surface of
\* the latest start, and nothing of the earlier record.
C19_SecondStartReplaces ==
    last.kind = "startScreenShare"
    => /\ getScreenShareState(activeScreenShares, last.from)
              = getScreenShareState(startStore(<<>>, last.from, last.constraints),
                                    last.from)
       /\ \A s \in getScreenShareState(activeScreenShares, last.from) :
              /\ s.isScreenSharing
              /\ s.quality = Tier(OrDefault(last.constraints.width, DefaultWidth),
                                  OrDefault(last.constraints.height, DefaultHeight))
              /\ s.displaySurface =
                     (IF last.constraints.displaySurface = NoSurface
                      THEN "unknown" ELSE last.constraints.displaySurface)

\* a start on a connection that was sharing with another tier and surface
C19_Witness ==
    /\ last.kind = "startScreenShare"
    /\ \E s \in last.pre :
           /\ s.isScreenSharing
           /\ s.quality # activeScreenShares[last.from].quality
           /\ s.displaySurface # activeScreenShares[last.from].displaySurface

\* C20: a handler's store update and its broadcast are one step, whatever
\* the other connections do before and after it: every
\* screenshare:peer-started carries a snapshot with the sharing flag true
\* and no screenshare:peer-stopped carries one with the flag true.
C20_SnapshotsMatchEvent ==
    \A i \in DOMAIN out :
        /\ out[i].ev = "screenshare:peer-started"
           => /\ out[i].state # NoState
              /\ \A s \in out[i].state : s.isScreenSharing
        /\ out[i].ev = "screenshare:peer-stopped"
           => \A s \in out[i].state : ~s.isScreenSharing

\* a peer-started reaches a peer that is itself sharing: the starts of two
\* connections followed one another
C20_Witness ==
    /\ last.kind = "screenshare:start"
    /\ \E i \in DOMAIN out :
           /\ out[i].ev = "screenshare:peer-started"
           /\ out[i].to # last.from
           /\ Sharing(activeScreenShares, out[i].to)

\* C21: a signaling payload (offer, answer, ICE candidate) reaches only
\* the connections that are members of the named room when it is relayed:
\* a relay step addresses exactly the other members of that moment, and no
\* later step, a join in particular, delivers a relayed payload.
C21_NoRetroactiveRelay ==
    [][/\ \A i \in DOMAIN out' :
              out'[i].ev \in RelayKinds
              => /\ last'.kind = out'[i].ev
                 /\ out'[i].userId = last'.from
                 /\ out'[i].to \in rooms[last'.roomId] \ {last'.from}
       /\ last'.kind \in {"connection", "chat:join"} => out' = <<>>]_vars

\* a payload is relayed to a room while a connected socket is outside it
C21_Witness ==
    /\ last.kind \in RelayKinds
    /\ out # <<>>
    /\ \E y \in Connected : y # last.from /\ y \notin rooms[last.roomId]

\* C22: the disconnect handler of X completes; when X had an assigned
\* room R it sends exactly one departure notice, to R's chat scope; when X
\* had none it sends nothing, neither a notice nor a peer-stopped; in both
\* cases X is not in the registry afterwards.
C22_DepartureNotice ==
    last.kind = "disconnect"
    => /\ ~last.uncaught
       /\ last.from \notin DOMAIN users
       /\ Cardinality({i \in DOMAIN out : out[i].ev = "chat:system"})
              = (IF last.userRoom # "" THEN 1 ELSE 0)
       /\ \A i \in DOMAIN out :
              out[i].ev = "chat:system"
              => /\ out[i].to = ChatScope
                 /\ out[i].payload = last.userRoom
                 /\ out[i].userId = last.from
       /\ last.userRoom = "" => out = <<>>

\* a connection with an assigned room left while another stays connected
C22_Witness ==
    /\ last.kind = "disconnect"
    /\ last.userRoom # ""
    /\ out # <<>>
    /\ Connected # {}

\* C23: stopScreenShare on an identity that has a record keeps a record
\* for it, with the sharing flag false and the camera flag true, and with
\* micOn, quality and displaySurface as they were; the record of every
\* other identity is as it was.
C23_StopKeepsRecord ==
    [][(last'.kind = "stopScreenShare" /\ last'.from \in DOMAIN activeScreenShares)
       => LET u == last'.from
          IN  /\ DOMAIN activeScreenShares' = DOMAIN activeScreenShares
              /\ ~activeScreenShares'[u].isScreenSharing
              /\ activeScreenShares'[u].camOn
              /\ activeScreenShares'[u].micOn = activeScreenShares[u].micOn
              /\ activeScreenShares'[u].quality = activeScreenShares[u].quality
              /\ activeScreenShares'[u].displaySurface
                     = activeScreenShares[u].displaySurface
              /\ \A v \in DOMAIN activeScreenShares \ {u} :
                     activeScreenShares'[v] = activeScreenShares[v]]_vars

\* a stop on a sharing identity with a non-default tier and surface while
\* another identity has a record
C23_Witness ==
    /\ last.kind = "stopScreenShare"
    /\ \E s \in last.pre : s.isScreenSharing /\ s.quality = "ultra"
    /\ \E v \in DOMAIN activeScreenShares : v # last.from

ManagerCallTypes ==
    [startScreenShare |-> "start", stopScreenShare |-> "stop",
     handleScreenShareError |-> "error"]

\* C24: a call of startScreenShare, stopScreenShare or
\* handleScreenShareError for identity u and room r puts one event of the
\* matching kind, carrying u and r, at the end of u's history; the earlier
\* entries keep their content and order, the oldest one leaving when the
\* history was at capacity; every other identity's history is untouched.
C24_OneEventPerCall ==
    [][last'.kind \in DOMAIN ManagerCallTypes
       => LET u == last'.from
              h == getMetrics(screenShareHistory, u)
              e == Event(ManagerCallTypes[last'.kind], u, last'.roomId, now)
          IN  /\ getMetrics(screenShareHistory', u)
                     = (IF Len(h) < HistoryCap THEN Append(h, e)
                        ELSE Append(Tail(h), e))
              /\ \A v \in (DOMAIN screenShareHistory \cup DOMAIN screenShareHistory')
                          \ {u} :
                     getMetrics(screenShareHistory', v)
                         = getMetrics(screenShareHistory, v)]_vars

\* a call on an identity whose history was full, while another identity
\* has a history
C24_Witness ==
    /\ last.kind \in DOMAIN ManagerCallTypes
    /\ Len(getMetrics(appended, last.from)) > HistoryCap
    /\ \E v \in DOMAIN screenShareHistory :
           v # last.from /\ screenShareHistory[v] # <<>>

\* what a message tells its receiver about the sender's sharing: "on",
\* "off", or "none" for a message that is not a sharing notice
NoticeOf(m) ==
    IF m.ev = "screenshare:peer-started" THEN "on"
    ELSE IF m.ev = "screenshare:peer-stopped" THEN "off"
    ELSE IF m.ev = "peer-media-state-change" /\ m.payload = "true" THEN "on"
    ELSE IF m.ev = "peer-media-state-change" /\ m.payload = "false" THEN "off"
    ELSE "none"

\* the sharing notices about x that the messages msgs bring to y
NoticesTo(msgs, x, y) ==
    {NoticeOf(msgs[i]) : i \in {j \in DOMAIN msgs :
                                   /\ msgs[j].to = y /\ msgs[j].userId = x
                                   /\ NoticeOf(msgs[j]) # "none"}}

\* C25: last write wins.  With messages delivered in order, the latest
\* sharing notice about X held by a member of X's room agrees with the
\* store after all of X's events iff it does so step by step: in every
\* start, stop, media-state-change or disconnect of X addressed to a room
\* R that X is in, a notice about X sent to a member of R tells the
\* committed flag, and a step that changes the committed flag sends every
\* other member of R such a notice.
C25_LatestNoticeAgrees ==
    [][(/\ last'.kind \in StoreAndBroadcastKinds
        /\ EventRoom' # ""
        /\ last'.from \in rooms[EventRoom'])
       => LET x == last'.from
              committed == IF Sharing(activeScreenShares', x) THEN "on" ELSE "off"
          IN  \A y \in rooms[EventRoom'] \ {x} :
                  /\ NoticesTo(out', x, y) \subseteq {committed}
                  /\ Sharing(activeScreenShares', x) # Sharing(activeScreenShares, x)
                     => NoticesTo(out', x, y) # {}]_vars

\* C26: cleanup is idempotent and total.  In every reachable store and for
\* every identity, cleanup on an identity without a record changes
\* nothing, and cleanup applied twice gives what it gives applied once;
\* the same holds of clearing a liveness timer, present or absent; and a
\* cleanup call leaves no record for its identity and every other record
\* as it was.
C26_CleanupIdempotent ==
    /\ \A u \in ManagerIds :
           /\ getScreenShareState(activeScreenShares, u) = {}
              => cleanup(activeScreenShares, u) = activeScreenShares
           /\ cleanup(cleanup(activeScreenShares, u), u)
                  = cleanup(activeScreenShares, u)
           /\ \A hb \in SUBSET ManagerIds :
                  /\ u \notin hb => clearHeartbeat(hb, u) = hb
                  /\ clearHeartbeat(clearHeartbeat(hb, u), u) = clearHeartbeat(hb, u)
    /\ last.kind = "cleanup"
       => /\ getScreenShareState(activeScreenShares, last.from) = {}
          /\ cleanup(activeScreenShares, last.from) = activeScreenShares

\* cleanup ran on an identity without a record while another has one
C26_Witness ==
    /\ last.kind = "cleanup"
    /\ last.pre = {}
    /\ activeScreenShares # <<>>

\* the registry's room of a connection, when set, is a room it is in
RegistryRoomIsJoined ==
    \A x \in DOMAIN users :
        users[x].roomId # "" => x \in Members(users[x].roomId)

\* C27: after a chat:join with a non-empty roomId r from X, or a
\* connection with initial room r, the registry's room of X is r and X is
\* a member of r; a chat:join with an empty roomId changes neither the
\* registry nor the rooms; and in every state the registry's room of a
\* connection, when set, is a room the connection is a member of.
C27_JoinSetsRoom ==
    /\ []RegistryRoomIsJoined
    /\ [][(last'.kind \in {"chat:join", "connection"})
          => LET x == last'.from
                 r == last'.roomId
             IN  IF r # ""
                 THEN /\ getUser(users', x) # {}
                      /\ users'[x].roomId = r
                      /\ x \in rooms'[r]
                 ELSE /\ rooms' = rooms
                      /\ last'.kind = "chat:join" => users' = users]_vars

\* a connection assigned to one room joined another
C27_Witness ==
    /\ last.kind = "chat:join"
    /\ last.roomId # ""
    /\ last.userRoom # ""
    /\ last.userRoom # last.roomId
    /\ users[last.from].roomId = last.roomId

\* the room of the latest start event of an identity, "" when it has none
RECURSIVE StartedIn(_)
StartedIn(events) ==
    IF events = <<>> THEN ""
    ELSE IF events[Len(events)].type = "start" THEN events[Len(events)].roomId
    ELSE StartedIn(SubSeq(events, 1, Len(events) - 1))

\* C28: getActiveScreenSharesInRoom(r) returns exactly the identities that
\* are actively sharing and whose share was started in r.
C28_ActiveSharesOfRoom ==
    last.kind = "getActiveScreenSharesInRoom"
    => {p[1] : p \in out[1].data}
           = {u \in DOMAIN activeScreenShares :
                  /\ activeScreenShares[u].isScreenSharing
                  /\ StartedIn(getMetrics(appended, u)) = last.roomId}

LastSent == IF hook.sent = <<>> THEN [ev |-> "", roomId |-> ""]
            ELSE hook.sent[Len(hook.sent)]

\* C29: when the captured track ends through the browser UI while the
\* hook's isSharing is true, the hook stops the share: isSharing is false
\* afterwards, the stream and its reference are cleared, and
\* screenshare:stop for the room is the event emitted last.
C29_TrackEndStops ==
    (hook.call = "onended" /\ hook.pre)
    => /\ ~hook.isSharing
       /\ ~hook.stream
       /\ ~hook.streamRef
       /\ LastSent = [ev |-> "screenshare:stop", roomId |-> hook.roomId]

\* C30: when the component unmounts while isSharing is true, the cleanup
\* stops the share: no captured track is left live and screenshare:stop
\* for the room is the event emitted last.
C30_UnmountStops ==
    (hook.call = "unmount" /\ hook.pre)
    => /\ hook.track # "live"
       /\ LastSent = [ev |-> "screenshare:stop", roomId |-> hook.roomId]

StartSent == [ev |-> "screenshare:start", roomId |-> hook.roomId]

\* C31: a call of startScreenShare emits screenshare:start only when it
\* has a capture stream with a live video track and has set isSharing,
\* and then returns true; a call that fails for want of a socket or room,
\* or in the capture (unsupported browser, capture rejected, no video
\* track, track not accepted by the sender), returns false, emits nothing,
\* leaves isSharing false, records an error and ends with isLoading false.
C31_StartEmitsAfterCapture ==
    [][hook'.call = "startScreenShare"
       => /\ hook'.ret \in {"true", "false"}
          /\ hook'.sent # hook.sent
             => /\ hook'.sent = Append(hook.sent, StartSent)
                /\ hook'.ret = "true"
                /\ hook'.isSharing /\ hook'.stream /\ hook'.streamRef
                /\ hook'.track = "live"
          /\ hook'.ret = "true" => hook'.sent # hook.sent
          /\ (hook'.ret = "false" /\ ~(hook.socket /\ hook.roomId # "" /\ hook.seen))
             => /\ hook'.sent = hook.sent
                /\ ~hook.isSharing => ~hook'.isSharing
                /\ hook'.error # ""
                /\ ~hook'.isLoading]_vars

\* a start whose capture was refused, after an earlier share was stopped
C31_Witness ==
    /\ hook.call = "startScreenShare"
    /\ hook.ret = "false"
    /\ hook.error = "Screen sharing permission was denied"
    /\ ~hook.isSharing
    /\ Len(hook.sent) = 2

\* C32: the guards of startScreenShare and stopScreenShare keep the
\* emitted events in step with isSharing: over calls of start, stop and
\* toggle that each complete before the next begins, the emitted events
\* alternate, screenshare:start first, screenshare:stop second, and so on.
C32_EmitsAlternate ==
    hook.call \in {"none", "render", "startScreenShare", "stopScreenShare",
                   "toggleScreenShare"}
    => \A i \in DOMAIN hook.sent :
           hook.sent[i].ev = (IF i % 2 = 1 THEN "screenshare:start"
                              ELSE "screenshare:stop")

\* a dimension the constraints do not carry: absent, or 0
Missing(v) == v = Absent \/ v = 0

\* C33: a start is classified with 1920 put for a missing width and 1080
\* for a missing height: with both missing the stored tier is medium, and
\* a missing dimension beside one that reaches the 1080p threshold never
\* gives low.
C33_DefaultsForMissing ==
    last.kind = "startScreenShare"
    => LET w == last.constraints.width
           h == last.constraints.height
           q == activeScreenShares[last.from].quality
       IN  /\ q = Tier(IF Missing(w) THEN DefaultWidth ELSE w,
                       IF Missing(h) THEN DefaultHeight ELSE h)
           /\ (Missing(w) /\ Missing(h)) => q = "medium"
           /\ (Missing(w) /\ h >= 1080) => q # "low"
           /\ (Missing(h) /\ w >= 1920) => q # "low"

\* a start with width 0 and height 1080 is stored as medium
C33_Witness ==
    /\ last.kind = "startScreenShare"
    /\ last.constraints.width = 0 /\ last.constraints.height = 1080
    /\ activeScreenShares[last.from].quality = "medium"


\* C34: every record of the state store has camOn = ~isScreenSharing and
\* micOn = TRUE; the micOn and camOn of a media-state-change event go out
\* in the broadcast and are not written to the record.
C34_StoreMediaFlags ==
    \A u \in DOMAIN activeScreenShares :
        /\ activeScreenShares[u].camOn = ~activeScreenShares[u].isScreenSharing
        /\ activeScreenShares[u].micOn

\* a media-state-change carrying micOn = FALSE started a share: peers got
\* micOn = FALSE, the record says micOn = TRUE
C34_Witness ==
    /\ last.kind = "media-state-change" /\ last.flag = "true"
    /\ \A s \in last.pre : ~s.isScreenSharing
    /\ last.from \in DOMAIN activeScreenShares
    /\ activeScreenShares[last.from].isScreenSharing
    /\ \E i \in DOMAIN out :
           /\ out[i].ev = "peer-media-state-change"
           /\ \E m \in out[i].media : ~m.micOn


\* C35: a disconnect of X leaves every identity's history as it was: the
\* step removes X's record from the state store and no other, appends no
\* event (none of type stop for an X that was sharing), and getMetrics
\* still returns X's events afterwards.
C35_DisconnectKeepsHistory ==
    [][\A x \in DOMAIN status :
           (status[x] = "connected" /\ status'[x] = "gone")
           => /\ screenShareHistory' = screenShareHistory
              /\ \A u \in DOMAIN status :
                     getMetrics(screenShareHistory', u)
                         = getMetrics(screenShareHistory, u)
              /\ now' = now
              /\ activeScreenShares' = MapDelete(activeScreenShares, x)
              /\ x \notin DOMAIN activeScreenShares']_vars

\* a connection that was sharing has disconnected: its record is gone and
\* the last event of its history is still the start
C35_Witness ==
    /\ last.kind = "disconnect"
    /\ \E s \in last.pre : s.isScreenSharing
    /\ last.from \notin DOMAIN activeScreenShares
    /\ LET h == getMetrics(screenShareHistory, last.from)
       IN  h # <<>> /\ h[Len(h)].type = "start"


\* the event a room-addressed inbound event puts out to the room
RoomEvent(kind) ==
    IF kind = "screenshare:start" THEN "screenshare:peer-started"
    ELSE IF kind = "screenshare:stop" THEN "screenshare:peer-stopped"
    ELSE kind

\* the connections the last handler sent ev to
SentTo(ev) == {out[i].to : i \in {j \in DOMAIN out : out[j].ev = ev}}

\* C36: a screenshare:start, screenshare:stop or relayed signalling event
\* naming room R reaches every member of R other than its sender, whether
\* or not the sender is in R (so every member, for a sender outside R);
\* what disconnect and media-state-change put out goes to the room the
\* registry holds for the sender and nowhere else.
C36_NoMembershipCheck ==
    /\ last.kind \in {"screenshare:start", "screenshare:stop"} \cup RelayKinds
       => /\ SentTo(RoomEvent(last.kind)) = Members(last.roomId) \ {last.from}
          /\ \A i \in DOMAIN out :
                 out[i].ev = RoomEvent(last.kind) => out[i].userId = last.from
    /\ last.kind = "media-state-change"
       => \A i \in DOMAIN out :
              /\ last.userRoom # ""
              /\ out[i].to \in Members(last.userRoom) \ {last.from}
    /\ last.kind = "disconnect"
       => \A i \in DOMAIN out :
              /\ last.userRoom # ""
              /\ \/ out[i].to = ChatScope /\ out[i].payload = last.userRoom
                 \/ out[i].to \in Members(last.userRoom)

\* a connection outside room r1 named r1 in an offer, and both members of
\* r1 received it
C36_Witness ==
    /\ last.kind = "screenshare:offer"
    /\ last.roomId = "r1"
    /\ last.from \notin Members("r1")
    /\ last.userRoom # "r1"
    /\ Cardinality(Members("r1")) = 2
    /\ SentTo("screenshare:offer") = Members("r1")


\* the events that carry the identity of their origin to other connections
SenderEvents ==
    RelayKinds \cup {"peer-media-state-change", "screenshare:peer-started",
                     "screenshare:peer-stopped", "screenshare:peer-quality-changed"}

\* C37: every relayed offer, answer, ice-candidate and
\* peer-media-state-change, and every peer-started, peer-stopped and
\* peer-quality-changed notice, names as sender the connection whose event
\* produced it, whatever sender the inbound payload names; a relayed sdp
\* or candidate is the one that came in.
C37_SenderIsOrigin ==
    \A i \in DOMAIN out :
        /\ out[i].ev \in SenderEvents => out[i].userId = last.from
        /\ out[i].ev \in RelayKinds
           => /\ out[i].ev = last.kind
              /\ out[i].payload = last.sdp

\* an offer whose payload names another connection as its sender was
\* relayed under the id of the connection that sent it
C37_Witness ==
    /\ last.kind = "screenshare:offer"
    /\ last.claimed \notin {Absent, last.from}
    /\ last.sdp = "sdp2"
    /\ out # <<>>
    /\ out[1].userId = last.from /\ out[1].payload = "sdp2"

====
